---- MODULE Spec2Model ----
(***************************************************************************)
(* A model of the repository's own code: the helpers word_topic and        *)
(* top_words, the method cells and the printing loop of Newsgroups.ipynb;  *)
(* text_cleaner, the import loop, the parse and the sentence loop of the   *)
(* word2vec notebook; the data and fitting cells of                        *)
(* Dimensionality_reduction.ipynb.  Library calls (TfidfVectorizer, spaCy, *)
(* the factorisations, the random draws) are inputs drawn from bounded     *)
(* sets.                                                                   *)
(*                                                                         *)
(* Numbers: a loading is a fixed-point integer counting thousandths, a     *)
(* tf-idf weight counts tenths and a document-topic weight hundredths, so  *)
(* that their product counts thousandths.                                  *)
(* Text: a string handled character by character (text_cleaner) is a       *)
(* sequence of one-character strings; a word or a formatted entry          *)
(* (top_words) is a TLA+ string.                                           *)
(***************************************************************************)
EXTENDS Integers, Sequences, FiniteSets, TLC

VARIABLES
    pc,            \* position of the running cell / function
    tfidf,         \* documents x words matrix (tenths)
    solution,      \* documents x topics matrix (hundredths)
    wordlist,      \* vocabulary, one word per tf-idf column
    components,    \* DataFrame: [index |-> words, values |-> words x topics]
    n_top_words,   \* argument of top_words
    column,        \* loop variable of top_words (0-based, as in the code)
    topwords,      \* Series: [index |-> labels, values |-> entries]
    raw,           \* argument of text_cleaner
    text,          \* local variable text of text_cleaner
    austen_doc,    \* parsed document: a sequence of sentences of tokens
    sent_i,        \* number of sentences of austen_doc.sents consumed
    sentences,     \* the list built by the sentence loop
    gutenberg,     \* the corpus reader: file name -> raw text
    novel_i,       \* number of novels the import loop has read
    austen,        \* the concatenation built by the import loop
    austen_clean,  \* the cleaned corpus, in run-length form
    parsed,        \* the text handed to nlp, in run-length form
    sent_spans,    \* character span of every sentence of austen_doc
    summary,       \* the numbers printed by the summary line
    news_train_tfidf, \* the tf-idf matrix of the training documents
    vocabulary,    \* the words of the tf-idf columns
    ntopics,       \* number of topics asked of every method
    topwords_frame,\* the DataFrame topwords of the notebook
    topic,         \* loop variable of the printing loop
    printed,       \* what the printing loop has printed so far
    data_n,        \* n, the number of datapoints
    data_p,        \* p, the number of features
    data_X,        \* X, n rows of p features
    data_y,        \* y, the outcome
    corr_table,    \* the table the correlation matrix is computed from
    y_new,         \* the outcome shifted by 100
    y_new_one,     \* the outcome with the noise scaled by 500
    draws,         \* the arrays np.random.normal has returned so far
    regr,          \* the linear model
    pls1,          \* PLSRegression models
    pls2,
    pls3,
    runs,          \* number of fitting cells run so far
    output         \* the R-squared lines printed so far

newsVars  == <<tfidf, solution, wordlist, components, n_top_words, column, topwords>>
cleanVars == <<raw, text>>
sentVars  == <<austen_doc, sent_i, sentences>>
corpusVars == <<gutenberg, novel_i, austen, austen_clean, parsed, sent_spans, summary>>
topicVars == <<news_train_tfidf, vocabulary, ntopics, topwords_frame, topic, printed>>
dataVars  == <<data_n, data_p, data_X, data_y, corr_table, y_new, y_new_one, draws>>
fitVars   == <<regr, pls1, pls2, pls3, runs, output>>
otherVars == <<corpusVars, topicVars, dataVars, fitVars>>
vars == <<pc, tfidf, solution, wordlist, components, n_top_words, column,
          topwords, raw, text, austen_doc, sent_i, sentences, otherVars>>

----------------------------------------------------------------------------
(* Bounds of the model.                                                    *)
MaxDocs   == 2
MaxWords  == 2
MaxTopics == 2

MaxFrags  == 5
MaxSents  == 2
MaxTokens == 2
MaxRows     == 2
MaxFeatures == 3
MaxRuns     == 3

(* Values the inputs are drawn from. *)
Vocabulary   == <<"car", "god", "gun", "nasa", "war">>
TfidfWeights == {0, 5}
TopicWeights == {-15, 25}
Loadings     == {-2005, 125}

NaN == "NaN"

Min(a, b) == IF a < b THEN a ELSE b
Abs(a)    == IF a < 0 THEN -a ELSE a

----------------------------------------------------------------------------
(* Newsgroups.ipynb: word_topic                                            *)

(* tfidf.T * solution: tfidf is a scipy sparse matrix, so * is the matrix  *)
(* product; entry (w, t) is the sum over the documents.                    *)
(* sum over the documents 1..d of tf[d][w] * sol[d][t] *)
RECURSIVE dot(_, _, _, _, _)
dot(tf, sol, w, t, d) ==
    IF d = 0 THEN 0 ELSE tf[d][w] * sol[d][t] + dot(tf, sol, w, t, d - 1)

words_by_topic_short(tf, sol) ==
    [w \in 1..Len(tf[1]) |->
        [t \in 1..Len(sol[1]) |-> dot(tf, sol, w, t, Len(tf) - 1)]]

words_by_topic(tf, sol) ==
    [w \in 1..Len(tf[1]) |->
        [t \in 1..Len(sol[1]) |-> dot(tf, sol, w, t, Len(tf))]]

(* pd.DataFrame(words_by_topic, index=wordlist) *)
DataFrame(values, idx) == [index |-> idx, values |-> values]

word_topic(tf, sol, words) == DataFrame(words_by_topic(tf, sol), words)

Shape(df) == <<Len(df.values), Len(df.values[1])>>

----------------------------------------------------------------------------
(* Newsgroups.ipynb: top_words                                             *)

(* np.repeat(range(T), n, axis=0): 0,..,0,1,..,1,... *)
np_tile(T, n) == [i \in 1..(T * n) |-> (i - 1) % T]

np_repeat(T, n) == [i \in 1..(T * n) |-> (i - 1) \div n]

(* pd.Series(index=index): every value missing. *)
Series(idx) == [index |-> idx, values |-> [i \in DOMAIN idx |-> NaN]]

(* components.iloc[:, column]: a series of (label, value), column 0-based. *)
iloc_column(df, c) ==
    [k \in 1..Len(df.values) |->
        [label |-> df.index[k], value |-> df.values[k][c + 1]]]

IsPermutation(p, n) == \A i, j \in 1..n : i # j => p[i] # p[j]

(* sort_values(ascending=False) with the default, unstable, quicksort: any *)
(* arrangement of the rows in which the values never increase.             *)
sort_values_ascending(s) ==
    { [k \in 1..Len(s) |-> s[p[k]]] :
        p \in { q \in [1..Len(s) -> 1..Len(s)] :
                  /\ IsPermutation(q, Len(s))
                  /\ \A k \in 1..(Len(s) - 1) : s[q[k]].value <= s[q[k + 1]].value } }

sort_values_by_magnitude(s) ==
    { [k \in 1..Len(s) |-> s[p[k]]] :
        p \in { q \in [1..Len(s) -> 1..Len(s)] :
                  /\ IsPermutation(q, Len(s))
                  /\ \A k \in 1..(Len(s) - 1) :
                        Abs(s[q[k]].value) >= Abs(s[q[k + 1]].value) } }

sort_values(s) ==
    { [k \in 1..Len(s) |-> s[p[k]]] :
        p \in { q \in [1..Len(s) -> 1..Len(s)] :
                  /\ IsPermutation(q, Len(s))
                  /\ \A k \in 1..(Len(s) - 1) : s[q[k]].value >= s[q[k + 1]].value } }

(* sortedwords[:n_top_words] *)
head_slice(s, n) == SubSeq(s, 1, Min(n, Len(s)))

(* round(x, 2) on thousandths, giving hundredths: round half to even. *)
round2(v) ==
    LET a == Abs(v)
        q == a \div 10
        r == a % 10
        h == IF r > 5 \/ (r = 5 /\ q % 2 = 1) THEN q + 1 ELSE q
    IN  IF v < 0 THEN -h ELSE h

Digit(d) == <<"0", "1", "2", "3", "4", "5", "6", "7", "8", "9">>[d + 1]

RECURSIVE IntStr(_)
IntStr(n) == IF n < 10 THEN Digit(n) ELSE IntStr(n \div 10) \o Digit(n % 10)

(* str of the rounded float: shortest repr, at least one decimal, and the  *)
(* sign of the unrounded value (a small negative rounds to -0.0).          *)
float_str(v) ==
    LET h  == Abs(round2(v))
        fp == h % 100
    IN  (IF v < 0 THEN "-" ELSE "")
        \o IntStr(h \div 100) \o "."
        \o (IF fp % 10 = 0 THEN Digit(fp \div 10)
                           ELSE Digit(fp \div 10) \o Digit(fp % 10))

(* chosen.index + " " + round(chosen, 2).map(str): combined by position,   *)
(* as the output recorded in the notebook shows ("jesus 13.83", ...).      *)
chosenlist_shifted(chosen) ==
    [k \in 1..Len(chosen) |->
        chosen[k].label \o " " \o float_str(chosen[(k % Len(chosen)) + 1].value)]

chosenlist_of(chosen) ==
    [k \in 1..Len(chosen) |->
        chosen[k].label \o " " \o float_str(chosen[k].value)]

(* topwords.loc[column] = chosenlist: the positions labelled column take   *)
(* the values of chosenlist in order.                                      *)
loc_assign(ser, label, vals) ==
    [ser EXCEPT !.values =
        [i \in DOMAIN ser.values |->
            IF ser.index[i] = label
            THEN vals[Cardinality({j \in 1..i : ser.index[j] = label})]
            ELSE ser.values[i]]]

----------------------------------------------------------------------------
(* The word2vec notebook: text_cleaner                                     *)

(* The pieces raw texts are assembled from. *)
Fragments ==
    { <<"-">>, <<"[">>, <<"]">>, <<" ">>, <<"\n">>,
      <<"C", "h", "a", "p", "t", "e", "r">>, <<"1">>, <<"a">> }

RECURSIVE Texts(_)
Texts(k) ==
    IF k = 0 THEN {<<>>}
    ELSE LET shorter == Texts(k - 1)
         IN  shorter \cup {t \o f : t \in shorter, f \in Fragments}

(* str.isspace characters and \d characters of the modelled alphabet *)
Whitespace == {" ", "\t", "\n", "\r", "\f"}
Digits     == {"0", "1", "2", "3", "4", "5", "6", "7", "8", "9"}

DoubleDash     == "--"
BracketHeading == "[\\[].*?[\\]]"
ChapterTitle   == "Chapter \\d+"

ChapterPrefix == <<"C", "h", "a", "p", "t", "e", "r", " ">>

MinOf(S) == CHOOSE x \in S : \A y \in S : x <= y

(* the end of the run of digits that starts at i *)
RECURSIVE digits_end(_, _)
digits_end(s, i) ==
    IF i < Len(s) /\ s[i + 1] \in Digits THEN digits_end(s, i + 1) ELSE i

(* '[\[].*?[\]]' at an opening bracket at i: the lazy '.*?' stops at the    *)
(* first closing bracket, and matches nothing when a newline comes first.  *)
bracket_end_greedy(s, i) ==
    LET closers == {j \in (i + 1)..Len(s) :
                      s[j] = "]" /\ \A k \in (i + 1)..(j - 1) : s[k] # "\n"}
    IN  IF closers = {} THEN 0
        ELSE CHOOSE j \in closers : \A k \in closers : k <= j

bracket_end(s, i) ==
    LET closers == {j \in (i + 1)..Len(s) : s[j] = "]"}
    IN  IF closers = {} THEN 0
        ELSE IF \E k \in (i + 1)..(MinOf(closers) - 1) : s[k] = "\n"
             THEN 0
             ELSE MinOf(closers)

(* re.match of the pattern at position i: the position of the last         *)
(* character of the match, or 0 when the pattern does not match at i.      *)
(* '.' matches every character but the newline; '.*?' is lazy, '\d+'       *)
(* greedy.                                                                 *)
match_end(pattern, s, i) ==
    CASE pattern = DoubleDash ->
            IF i < Len(s) /\ s[i] = "-" /\ s[i + 1] = "-" THEN i + 1 ELSE 0
      [] pattern = BracketHeading ->
            IF s[i] # "[" THEN 0 ELSE bracket_end(s, i)
      [] pattern = ChapterTitle ->
            IF /\ i + 8 <= Len(s)
               /\ SubSeq(s, i, i + 7) = ChapterPrefix
               /\ s[i + 8] \in Digits
            THEN digits_end(s, i + 8)
            ELSE 0

(* re.sub(pattern, repl, s) from position i on: leftmost matches, one      *)
(* after the other, never overlapping.                                     *)
RECURSIVE re_sub_from(_, _, _, _)
re_sub_from(pattern, repl, s, i) ==
    IF i > Len(s) THEN <<>>
    ELSE LET e == match_end(pattern, s, i)
         IN  IF e = 0
             THEN <<s[i]>> \o re_sub_from(pattern, repl, s, i + 1)
             ELSE repl \o re_sub_from(pattern, repl, s, e + 1)

re_sub(pattern, repl, s) == re_sub_from(pattern, repl, s, 1)

(* text.split(): the maximal runs of non-whitespace characters *)
RECURSIVE split_from(_, _, _, _)
split_from(s, i, word, seps) ==
    IF i > Len(s) THEN (IF word = <<>> THEN <<>> ELSE <<word>>)
    ELSE IF s[i] \in seps
         THEN (IF word = <<>> THEN <<>> ELSE <<word>>)
                  \o split_from(s, i + 1, <<>>, seps)
         ELSE split_from(s, i + 1, Append(word, s[i]), seps)

split_on_blank(s) == split_from(s, 1, <<>>, {" "})

split(s) == split_from(s, 1, <<>>, Whitespace)

(* sep.join(words) *)
RECURSIVE join(_, _)
join(sep, words) ==
    IF words = <<>> THEN <<>>
    ELSE IF Len(words) = 1 THEN words[1]
         ELSE words[1] \o sep \o join(sep, Tail(words))

(* the four statements of text_cleaner *)
clean_dashes(t)     == re_sub(DoubleDash, <<" ">>, t)
clean_brackets(t)   == re_sub(BracketHeading, <<>>, t)
clean_chapters(t)   == re_sub(ChapterTitle, <<>>, t)
clean_whitespace(t) == join(<<" ">>, split(t))

text_cleaner(t) ==
    clean_whitespace(clean_chapters(clean_brackets(clean_dashes(t))))

----------------------------------------------------------------------------
(* The word2vec notebook: the sentence loop                                *)

(* The tokens spaCy may hand out: a lemma and the two flags of the filter. *)
Token(lemma, stop, punct) == [lemma_ |-> lemma, is_stop |-> stop, is_punct |-> punct]

Tokens ==
    { Token(<<"E", "m", "m", "a">>, FALSE, FALSE),
      Token(<<"b", "e">>, TRUE, FALSE),
      Token(<<",">>, FALSE, TRUE) }

(* a sentence is a non-empty span of tokens *)
SentenceSpans == UNION { [1..n -> Tokens] : n \in 1..MaxTokens }
Docs          == UNION { [1..n -> SentenceSpans] : n \in 0..MaxSents }

UpperCase == <<"A", "B", "C", "D", "E", "F", "G", "H", "I", "J", "K", "L", "M",
               "N", "O", "P", "Q", "R", "S", "T", "U", "V", "W", "X", "Y", "Z">>
LowerCase == <<"a", "b", "c", "d", "e", "f", "g", "h", "i", "j", "k", "l", "m",
               "n", "o", "p", "q", "r", "s", "t", "u", "v", "w", "x", "y", "z">>

lower_char(c) ==
    IF \E k \in DOMAIN UpperCase : UpperCase[k] = c
    THEN LowerCase[CHOOSE k \in DOMAIN UpperCase : UpperCase[k] = c]
    ELSE c

(* str.lower() *)
lower(str) == [k \in DOMAIN str |-> lower_char(str[k])]

(* the condition of the comprehension *)
keep_token_either(token) == ~token.is_stop \/ ~token.is_punct

keep_token(token) == ~token.is_stop /\ ~token.is_punct

(* [token.lemma_.lower() for token in sentence if ...] from token i on *)
RECURSIVE comprehension(_, _)
comprehension(sentence, i) ==
    IF i > Len(sentence) THEN <<>>
    ELSE (IF keep_token(sentence[i]) THEN <<lower(sentence[i].lemma_)>> ELSE <<>>)
            \o comprehension(sentence, i + 1)

----------------------------------------------------------------------------
(* The word2vec notebook: the corpus and its parsing                       *)

(* A long text is kept in run-length form: a sequence of runs, each a      *)
(* character and the number of times it is repeated.                       *)
Run(c, k) == [ch |-> c, n |-> k]

(* the run-length form of a sequence of characters *)
RECURSIVE Rle(_)
Rle(str) ==
    IF str = <<>> THEN <<>>
    ELSE LET rest == Rle(Tail(str))
         IN  IF rest # <<>> /\ rest[1].ch = str[1]
             THEN <<Run(str[1], rest[1].n + 1)>> \o Tail(rest)
             ELSE <<Run(str[1], 1)>> \o rest

(* len(s) *)
RECURSIVE rle_len(_)
rle_len(t) == IF t = <<>> THEN 0 ELSE t[1].n + rle_len(Tail(t))

(* s[p - 1]: the character at the 1-based position p *)
RECURSIVE rle_char(_, _)
rle_char(t, p) == IF p <= t[1].n THEN t[1].ch ELSE rle_char(Tail(t), p - t[1].n)

(* the first k characters of t, or all of t when it is shorter *)
RECURSIVE rle_prefix(_, _)
rle_prefix(t, k) ==
    IF t = <<>> \/ k <= 0 THEN <<>>
    ELSE IF t[1].n <= k THEN <<t[1]>> \o rle_prefix(Tail(t), k - t[1].n)
         ELSE <<Run(t[1].ch, k)>>

(* s[:k] for k >= 0 *)
rle_slice_whole(t, k) == t

rle_slice(t, k) == rle_prefix(t, k)

ParseLimit  == 999999
SampleIndex == 20

(* Cleaned corpora around the limit, each a run of one character followed  *)
(* by a run of another.                                                    *)
CorpusLengths == {0, 7, 200, ParseLimit - 1, ParseLimit, ParseLimit + 1, 2006272}
CorpusSplits  == {0, 3, ParseLimit - 1, ParseLimit}

Corpus(len, m) ==
    (IF m > 0 THEN <<Run("a", m)>> ELSE <<>>)
        \o (IF len > m THEN <<Run("b", len - m)>> ELSE <<>>)

Corpora ==
    { Corpus(c[1], c[2]) : c \in {d \in CorpusLengths \X CorpusSplits : d[2] <= d[1]} }

(* What nlp may return for a text of L characters: n sentences that cover  *)
(* the text in order, every sentence with at least one token and at least  *)
(* as many characters as tokens.  Sentences alternate between two shapes,  *)
(* all but the last are w characters wide.                                 *)
ParseTokens == {tok \in Tokens : ~tok.is_punct}
ParseSpans  == UNION { [1..n -> ParseTokens] : n \in 1..MaxTokens }
DocSizes    == {1, SampleIndex, SampleIndex + 1, SampleIndex + 2}
SpanWidths  == {5, 45000}

NlpDoc(L, n, w, a, b) ==
    [sents |-> [k \in 1..n |-> IF k % 2 = 1 THEN a ELSE b],
     spans |-> [k \in 1..n |->
                  [first |-> (k - 1) * w + 1,
                   last  |-> IF k = n THEN L ELSE k * w]]]

nlp(t) ==
    LET L       == rle_len(t)
        choices == {c \in DocSizes \X SpanWidths :
                      /\ c[2] >= MaxTokens
                      /\ (c[1] - 1) * c[2] + MaxTokens <= L}
    IN  IF L = 0 THEN { [sents |-> <<>>, spans |-> <<>>] }
        ELSE { NlpDoc(L, c[1], c[2], a, b) :
                 c \in choices, a \in ParseSpans, b \in ParseSpans }

----------------------------------------------------------------------------
(* Newsgroups.ipynb: the LSA, LDA and NNMF cells and the printing loop     *)

(* top_words as a whole: the loop over the columns, with every outcome of  *)
(* the unstable sort.                                                      *)
RECURSIVE top_words_loop(_, _, _, _)
top_words_loop(comps, n, col, ser) ==
    IF col = Shape(comps)[2] THEN {ser}
    ELSE UNION { top_words_loop(comps, n, col + 1,
                    loc_assign(ser, col, chosenlist_of(head_slice(sortedwords, n)))) :
                 sortedwords \in sort_values(iloc_column(comps, col)) }

top_words(comps, n) ==
    top_words_loop(comps, n, 0, Series(np_repeat(Shape(comps)[2], n)))

(* The tf-idf matrices of the model: each document weighs every other word. *)
TfidfMatrices(D, W) ==
    { [d \in 1..D |-> [w \in 1..W |-> IF (d + w) % 2 = k THEN 5 ELSE 0]] :
        k \in {0, 1} }

(* fit_transform of a decomposition with n_components components: one row *)
(* per document and one column per component; the values are not modelled *)
(* beyond a choice between two patterns of weights.                        *)
fit_transform_wide(X, n_components) ==
    { [d \in 1..Len(X) |->
          [t \in 1..(n_components + 1) |-> IF (d + t) % 2 = k THEN 25 ELSE -15]] :
        k \in {0, 1} }

fit_transform(X, n_components) ==
    { [d \in 1..Len(X) |->
          [t \in 1..n_components |-> IF (d + t) % 2 = k THEN 25 ELSE -15]] :
        k \in {0, 1} }

(* pd.DataFrame() *)
NewFrame == [index |-> <<>>, columns |-> <<>>, data |-> <<>>]

HasDuplicates(idx) == \E i, j \in DOMAIN idx : i # j /\ idx[i] = idx[j]

(* frame[name] = series raises ValueError (cannot reindex from a duplicate *)
(* axis) when the series has to be reindexed and its index has duplicates. *)
setitem_raises(frame, ser) ==
    /\ frame.index # <<>>
    /\ ser.index # frame.index
    /\ HasDuplicates(ser.index)

(* the series aligned with the index of the frame: itself when the two    *)
(* indexes are equal, otherwise looked up by label, NaN where missing.     *)
reindex(ser, idx) ==
    IF ser.index = idx THEN ser.values
    ELSE [i \in DOMAIN idx |->
            IF \E j \in DOMAIN ser.index : ser.index[j] = idx[i]
            THEN ser.values[CHOOSE j \in DOMAIN ser.index : ser.index[j] = idx[i]]
            ELSE NaN]

(* frame[name] = series: an empty frame takes the index of the series; a  *)
(* new name is appended to the columns, an old one is replaced.            *)
setitem(frame, name, ser) ==
    LET idx == IF frame.index = <<>> THEN ser.index ELSE frame.index
        col == reindex(ser, idx)
    IN  IF \E c \in DOMAIN frame.columns : frame.columns[c] = name
        THEN [frame EXCEPT !.index = idx,
                !.data = [c \in DOMAIN frame.columns |->
                            IF frame.columns[c] = name THEN col ELSE frame.data[c]]]
        ELSE [index   |-> idx,
              columns |-> Append(frame.columns, name),
              data    |-> Append(frame.data, col)]

(* the rows of the frame at the given positions, each with its label and  *)
(* one entry per column                                                    *)
RECURSIVE rows_at(_, _, _)
rows_at(frame, i, label) ==
    IF i > Len(frame.index) THEN <<>>
    ELSE (IF frame.index[i] = label
          THEN << [label   |-> frame.index[i],
                   entries |-> [c \in DOMAIN frame.columns |-> frame.data[c][i]]] >>
          ELSE <<>>)
         \o rows_at(frame, i + 1, label)

(* topwords.loc[topic]: every row labelled topic, in the order of the      *)
(* frame; one row alone comes back as a Series of the same entries.        *)
loc_first(frame, label) ==
    LET rows == rows_at(frame, 1, label)
    IN  [kind |-> "Series", rows |-> SubSeq(rows, 1, 1)]

loc(frame, label) ==
    LET rows == rows_at(frame, 1, label)
    IN  [kind |-> IF Len(rows) = 1 THEN "Series" ELSE "DataFrame",
         rows |-> rows]

----------------------------------------------------------------------------
(* Dimensionality_reduction.ipynb: the synthetic data and the models       *)

(* np.random.normal(size=size): one array of size draws; the model draws   *)
(* from three streams of small integers.                                   *)
np_random_normal(size) ==
    { [k \in 1..size |-> ((k * step) % 5) - 2] : step \in {1, 2, 3} }

(* a.reshape((rows, cols)): row-major *)
reshape(a, rows, cols) ==
    [i \in 1..rows |-> [j \in 1..cols |-> a[(i - 1) * cols + j]]]

(* X[:, 0] + 2 * X[:, 1] + noise * scale + shift, elementwise; column c of *)
(* the code is position c + 1 of a row.                                    *)
outcome_shifted(Xm, noise, scale, shift) ==
    [i \in 1..Len(Xm) |-> Xm[i][2] + 2 * Xm[i][3] + noise[i] * scale + shift]

outcome(Xm, noise, scale, shift) ==
    [i \in 1..Len(Xm) |-> Xm[i][1] + 2 * Xm[i][2] + noise[i] * scale + shift]

(* np.insert(arr, obj, values, axis=1): values becomes column obj and the  *)
(* columns from obj on move one place to the right.                        *)
np_insert_overwrite(arr, obj, values) ==
    [i \in 1..Len(arr) |-> [arr[i] EXCEPT ![obj + 1] = values[i]]]

np_insert(arr, obj, values) ==
    [i \in 1..Len(arr) |->
        SubSeq(arr[i], 1, obj) \o <<values[i]>> \o SubSeq(arr[i], obj + 1, Len(arr[i]))]

(* linear_model.LinearRegression() and PLSRegression(n_components=k) *)
LinearRegression == [kind |-> "LinearRegression", n_components |-> 0,
                     fitted_on |-> <<>>, fitted_in |-> 0]
PLSRegression(k) == [kind |-> "PLSRegression", n_components |-> k,
                     fitted_on |-> <<>>, fitted_in |-> 0]

(* model.fit(X, y) in cell run number run: the model is refitted on this   *)
(* data, whatever it was fitted on before.                                 *)
fit_once(model, Xm, target, run) ==
    IF model.fitted_on = <<>>
    THEN [model EXCEPT !.fitted_on = <<Xm, target>>, !.fitted_in = run]
    ELSE model

fit(model, Xm, target, run) ==
    [model EXCEPT !.fitted_on = <<Xm, target>>, !.fitted_in = run]

(* model.score(X, y): R-squared of the fitted model on the data given; the *)
(* number is kept as the pair (what the model was fitted on, what it is    *)
(* scored on).                                                             *)
score(model, Xm, target) ==
    [kind |-> model.kind, fitted_on |-> model.fitted_on,
     fitted_in |-> model.fitted_in, scored_on |-> <<Xm, target>>]

(* print(label, value) in cell run number run *)
print_line(run, label, value) == [run |-> run, label |-> label, value |-> value]

----------------------------------------------------------------------------
(* States shared by the specifications: the variables a specification does *)
(* not use stay at these values.                                           *)
EmptySeries == [index |-> <<>>, values |-> <<>>]
EmptyFrame  == [index |-> <<>>, values |-> <<>>]

NewsIdle ==
    /\ tfidf = <<>> /\ solution = <<>> /\ wordlist = <<>>
    /\ components = EmptyFrame /\ n_top_words = 0 /\ column = 0
    /\ topwords = EmptySeries
CleanIdle == raw = <<>> /\ text = <<>>
SentIdle  == austen_doc = <<>> /\ sent_i = 0 /\ sentences = <<>>
CorpusIdle ==
    /\ gutenberg = <<>> /\ novel_i = 0 /\ austen = <<>> /\ austen_clean = <<>>
    /\ parsed = <<>> /\ sent_spans = <<>> /\ summary = <<>>
NoFrame == [index |-> <<>>, columns |-> <<>>, data |-> <<>>]
TopicIdle ==
    /\ news_train_tfidf = <<>> /\ vocabulary = <<>> /\ ntopics = 0
    /\ topwords_frame = NoFrame /\ topic = 0 /\ printed = <<>>
Undefined == [kind |-> "undefined", n_components |-> 0, fitted_on |-> <<>>, fitted_in |-> 0]
RegressionIdle ==
    /\ data_n = 0 /\ data_p = 0 /\ data_X = <<>> /\ data_y = <<>>
    /\ corr_table = <<>> /\ y_new = <<>> /\ y_new_one = <<>> /\ draws = <<>>
    /\ regr = Undefined /\ pls1 = Undefined /\ pls2 = Undefined /\ pls3 = Undefined
    /\ runs = 0 /\ output = <<>>
OtherIdle == CorpusIdle /\ TopicIdle /\ RegressionIdle

----------------------------------------------------------------------------
(* word_topic as a call: the factorisation's output and the tf-idf matrix  *)
(* are library results, drawn from the bounded matrices.                   *)
InitWordTopic ==
    /\ pc = "word_topic"
    /\ \E D \in 1..MaxDocs, W \in 1..MaxWords, T \in 1..MaxTopics :
          /\ tfidf \in [1..D -> [1..W -> TfidfWeights]]
          /\ solution \in [1..D -> [1..T -> TopicWeights]]
          /\ wordlist = SubSeq(Vocabulary, 1, W)
    /\ components = EmptyFrame /\ n_top_words = 0 /\ column = 0
    /\ topwords = EmptySeries
    /\ CleanIdle /\ SentIdle
    /\ OtherIdle

WordTopic ==
    /\ pc = "word_topic"
    /\ components' = word_topic(tfidf, solution, wordlist)
    /\ pc' = "word_topic_returned"
    /\ UNCHANGED <<tfidf, solution, wordlist, n_top_words, column, topwords>>
    /\ UNCHANGED <<cleanVars, sentVars>>
    /\ UNCHANGED otherVars

NextWordTopic == WordTopic
SpecWordTopic == InitWordTopic /\ [][NextWordTopic]_vars

----------------------------------------------------------------------------
(* top_words as a call on any components table with at least n_top_words   *)
(* rows.                                                                   *)
InitTopWords ==
    /\ pc = "top_words"
    /\ \E W \in 1..MaxWords, T \in 1..MaxTopics :
          \E v \in [1..W -> [1..T -> Loadings]] :
              components = DataFrame(v, SubSeq(Vocabulary, 1, W))
    /\ n_top_words \in 1..Len(components.values)
    /\ tfidf = <<>> /\ solution = <<>> /\ wordlist = <<>>
    /\ column = 0 /\ topwords = EmptySeries
    /\ CleanIdle /\ SentIdle
    /\ OtherIdle

(* lines 112-114: the index and the series of missing values *)
TopWordsEnter ==
    /\ pc = "top_words"
    /\ topwords' = Series(np_repeat(Shape(components)[2], n_top_words))
    /\ column' = 0
    /\ pc' = "loop"
    /\ UNCHANGED <<tfidf, solution, wordlist, components, n_top_words>>
    /\ UNCHANGED <<cleanVars, sentVars>>
    /\ UNCHANGED otherVars

(* lines 115-122: one iteration of the loop over the columns *)
TopWordsColumn ==
    /\ pc = "loop"
    /\ column < Shape(components)[2]
    /\ \E sortedwords \in sort_values(iloc_column(components, column)) :
          LET chosen     == head_slice(sortedwords, n_top_words)
              chosenlist == chosenlist_of(chosen)
          IN  topwords' = loc_assign(topwords, column, chosenlist)
    /\ column' = column + 1
    /\ UNCHANGED <<pc, tfidf, solution, wordlist, components, n_top_words>>
    /\ UNCHANGED <<cleanVars, sentVars>>
    /\ UNCHANGED otherVars

(* line 123 *)
TopWordsReturn ==
    /\ pc = "loop"
    /\ column = Shape(components)[2]
    /\ pc' = "top_words_returned"
    /\ UNCHANGED newsVars
    /\ UNCHANGED <<cleanVars, sentVars>>
    /\ UNCHANGED otherVars

NextTopWords == TopWordsEnter \/ TopWordsColumn \/ TopWordsReturn
SpecTopWords == InitTopWords /\ [][NextTopWords]_vars

----------------------------------------------------------------------------
(* Properties of top_words (SpecTopWords).                                 *)

InTopWords == pc \in {"loop", "top_words_returned"}
Rows       == 1..Len(components.values)
NTopics    == Shape(components)[2]

(* the loading of row r on topic t (t is the 0-based column label) *)
Loading(r, t) == components.values[r][t + 1]

(* what the entry of row r for topic t has to read *)
Entry(r, t) == components.index[r] \o " " \o float_str(Loading(r, t))

(* the values of topwords labelled t, in the order of the series *)
Block(t) ==
    LET pos == {i \in DOMAIN topwords.index : topwords.index[i] = t}
    IN  [k \in 1..Cardinality(pos) |->
            topwords.values[CHOOSE i \in pos :
                                Cardinality({j \in pos : j <= i}) = k]]

Range(f) == {f[k] : k \in DOMAIN f}

(* C1: for every topic column t already extracted, the words reported for  *)
(* t are n_top_words distinct rows of column t, and every reported word's  *)
(* signed loading is at least the loading of every word not reported.      *)
(* (The words of the vocabulary are distinct, so an entry names its row.)  *)
C1_TopLoadingsChosen ==
    InTopWords =>
        \A t \in 0..(column - 1) :
            LET block    == Block(t)
                entry    == [r \in Rows |-> Entry(r, t)]
                reported == {r \in Rows : entry[r] \in Range(block)}
            IN  /\ Len(block) = n_top_words
                /\ \A k \in 1..Len(block) : \E r \in Rows : block[k] = entry[r]
                /\ \A j, k \in 1..Len(block) : j # k => block[j] # block[k]
                /\ Cardinality(reported) = n_top_words
                /\ \A r \in reported : \A q \in Rows \ reported :
                      Loading(r, t) >= Loading(q, t)

(* a finished call that left out a word of large negative loading in       *)
(* favour of a word of smaller magnitude                                   *)
C1_Witness ==
    /\ pc = "top_words_returned"
    /\ n_top_words < Len(components.values)
    /\ \E t \in 0..(NTopics - 1) : \E r, s \in Rows :
          /\ Loading(r, t) = -2005 /\ Loading(s, t) = 125
          /\ Entry(s, t) \in Range(Block(t))
          /\ Entry(r, t) \notin Range(Block(t))

(* C2: within the block of every extracted topic t the entries are in      *)
(* non-increasing order of loading, the first being a maximum of column t. *)
C2_BlockDescending ==
    InTopWords =>
        \A t \in 0..(column - 1) :
            LET block == Block(t)
                entry == [r \in Rows |-> Entry(r, t)]
                (* the loading of the word that each entry names *)
                at    == [k \in 1..Len(block) |->
                            Loading(CHOOSE r \in Rows : block[k] = entry[r], t)]
            IN  /\ \A k \in 1..Len(block) : \E r \in Rows : block[k] = entry[r]
                /\ Len(block) >= 1 => \A r \in Rows : at[1] >= Loading(r, t)
                /\ \A k \in 1..(Len(block) - 1) : at[k] >= at[k + 1]

(* a finished call with a block whose first two loadings differ *)
C2_Witness ==
    /\ pc = "top_words_returned"
    /\ n_top_words >= 2
    /\ \E t \in 0..(NTopics - 1) : \E r, s \in Rows :
          /\ Block(t)[1] = Entry(r, t) /\ Block(t)[2] = Entry(s, t)
          /\ Loading(r, t) > Loading(s, t)

(* C3: every entry written for topic t is a word, one space and that same  *)
(* word's own loading in column t rounded to 2 decimals.                   *)
C3_EntryPairsWordWithOwnLoading ==
    InTopWords =>
        \A t \in 0..(NTopics - 1) :
            LET own == { components.index[r] \o " "
                            \o float_str(components.values[r][t + 1]) : r \in Rows }
            IN  \A i \in DOMAIN topwords.values :
                    (topwords.index[i] = t /\ topwords.values[i] # NaN)
                        => topwords.values[i] \in own

(* the same word reported for two topics with its two different loadings *)
C3_Witness ==
    /\ pc = "top_words_returned"
    /\ \E i, j \in DOMAIN topwords.values :
          /\ topwords.index[i] = 0 /\ topwords.values[i] = "god 0.12"
          /\ topwords.index[j] = 1 /\ topwords.values[j] = "god -2.0"

(* C4: the returned series has NTopics * n_top_words entries, its index is *)
(* every topic label repeated n_top_words times consecutively, no entry is *)
(* left missing, and an entry once written is never written again.         *)
C4_SeriesFilledOnce ==
    /\ [](pc = "top_words_returned" =>
            /\ Len(topwords.values) = NTopics * n_top_words
            /\ Len(topwords.index) = NTopics * n_top_words
            /\ \A t \in 0..(NTopics - 1) : \A k \in 1..n_top_words :
                  topwords.index[t * n_top_words + k] = t
            /\ \A i \in DOMAIN topwords.values : topwords.values[i] # NaN)
    /\ [][\A i \in DOMAIN topwords.values :
              topwords.values[i] # NaN =>
                  /\ i \in DOMAIN topwords'.values
                  /\ topwords'.values[i] = topwords.values[i]]_vars

(* a finished call on several topics and several words per topic *)
C4_Witness ==
    /\ pc = "top_words_returned"
    /\ NTopics >= 2 /\ n_top_words >= 2
    /\ Len(topwords.values) = NTopics * n_top_words

----------------------------------------------------------------------------
(* Properties of word_topic (SpecWordTopic).                               *)

RECURSIVE SumOverDocs(_, _, _)
SumOverDocs(docs, w, t) ==
    IF docs = {} THEN 0
    ELSE LET d == CHOOSE x \in docs : TRUE
         IN  tfidf[d][w] * solution[d][t] + SumOverDocs(docs \ {d}, w, t)

(* C5: word_topic returns one row per vocabulary word and one column per   *)
(* topic; entry (w, t) is the sum over the documents d of                  *)
(* tfidf[d][w] * solution[d][t], and row i is labelled wordlist[i].        *)
C5_WordTopicIsProduct ==
    pc = "word_topic_returned" =>
        /\ components.index = wordlist
        /\ Len(components.values) = Len(wordlist)
        /\ \A w \in 1..Len(wordlist) :
              /\ Len(components.values[w]) = Len(solution[1])
              /\ \A t \in 1..Len(solution[1]) :
                    components.values[w][t] =
                        SumOverDocs(DOMAIN tfidf, w, t)

(* a result with an entry to which two documents contribute *)
C5_Witness ==
    /\ pc = "word_topic_returned"
    /\ Len(tfidf) >= 2 /\ Len(wordlist) >= 2 /\ Len(solution[1]) >= 2
    /\ \E w \in 1..Len(wordlist) :
          /\ tfidf[1][w] # 0 /\ tfidf[2][w] # 0
          /\ components.values[w][1] # tfidf[1][w] * solution[1][1]

----------------------------------------------------------------------------
(* text_cleaner as a call on any text, one step per statement.             *)
InitCleaner ==
    /\ pc = "text_cleaner"
    /\ raw \in Texts(MaxFrags)
    /\ text = raw
    /\ NewsIdle /\ SentIdle
    /\ OtherIdle

CleanDashes ==
    /\ pc = "text_cleaner"
    /\ text' = clean_dashes(text)
    /\ pc' = "brackets"
    /\ UNCHANGED <<raw, newsVars, sentVars>>
    /\ UNCHANGED otherVars

CleanBrackets ==
    /\ pc = "brackets"
    /\ text' = clean_brackets(text)
    /\ pc' = "chapters"
    /\ UNCHANGED <<raw, newsVars, sentVars>>
    /\ UNCHANGED otherVars

CleanChapters ==
    /\ pc = "chapters"
    /\ text' = clean_chapters(text)
    /\ pc' = "whitespace"
    /\ UNCHANGED <<raw, newsVars, sentVars>>
    /\ UNCHANGED otherVars

CleanWhitespace ==
    /\ pc = "whitespace"
    /\ text' = clean_whitespace(text)
    /\ pc' = "text_cleaner_returned"
    /\ UNCHANGED <<raw, newsVars, sentVars>>
    /\ UNCHANGED otherVars

NextCleaner == CleanDashes \/ CleanBrackets \/ CleanChapters \/ CleanWhitespace
SpecCleaner == InitCleaner /\ [][NextCleaner]_vars

----------------------------------------------------------------------------
(* Properties of text_cleaner (SpecCleaner).                               *)

Cleaned == pc = "text_cleaner_returned"

(* s occurs in t at position i *)
OccursAt(s, t, i) == i + Len(s) - 1 <= Len(t) /\ SubSeq(t, i, i + Len(s) - 1) = s

(* C6: the string text_cleaner returns contains no occurrence of '--'.     *)
C6_NoDoubleDash ==
    Cleaned => \A i \in 1..Len(text) : ~OccursAt(<<"-", "-">>, text, i)

(* C7: the string text_cleaner returns contains no '[' that is followed    *)
(* later in the string by a ']'.                                           *)
C7_NoBracketPair ==
    Cleaned => \A i, j \in 1..Len(text) : ~(i < j /\ text[i] = "[" /\ text[j] = "]")

(* C8: the string text_cleaner returns contains no occurrence of the word  *)
(* 'Chapter' followed by a space and one or more digits.                   *)
C8_NoChapterTitle ==
    Cleaned =>
        \A i \in 1..Len(text) :
            ~(OccursAt(ChapterPrefix, text, i)
                /\ i + 8 <= Len(text) /\ text[i + 8] \in Digits)

(* C9: the returned string has no leading or trailing whitespace, no       *)
(* whitespace character other than the space, and no two spaces in a row.  *)
C9_WhitespaceNormalised ==
    Cleaned =>
        /\ text # <<>> => text[1] \notin Whitespace /\ text[Len(text)] \notin Whitespace
        /\ \A i \in 1..Len(text) : text[i] \in Whitespace => text[i] = " "
        /\ \A i \in 1..(Len(text) - 1) : ~(text[i] = " " /\ text[i + 1] = " ")

(* a text that began with whitespace and held a newline next to a space    *)
(* between two words, returned with the words one space apart              *)
C9_Witness ==
    /\ Cleaned
    /\ raw = <<" ", "a", "\n", " ", "a">>
    /\ text = <<"a", " ", "a">>

(* the positions of character c in t from position i on *)
From(t, c, i) == {k \in i..Len(t) : t[k] = c}

(* t holds two bracketed headings on one line: the first '[' of t at h[1]  *)
(* with the first ']' after it at h[2], the next '[' at h[3] with the      *)
(* first ']' after it at h[4], and no newline from h[1] to h[4].           *)
TwoHeadings(t) ==
    IF From(t, "[", 1) = {} THEN <<>>
    ELSE LET i == MinOf(From(t, "[", 1))
         IN  IF From(t, "]", i) = {} THEN <<>>
             ELSE LET j == MinOf(From(t, "]", i))
                  IN  IF From(t, "[", j) = {} THEN <<>>
                      ELSE LET k == MinOf(From(t, "[", j))
                           IN  IF From(t, "]", k) = {} THEN <<>>
                               ELSE LET l == MinOf(From(t, "]", k))
                                    IN  IF \E m \in i..l : t[m] = "\n" THEN <<>>
                                        ELSE <<i, j, k, l>>

(* t without its two headings: what stood before, between and after them  *)
WithoutHeadings(t, h) ==
    SubSeq(t, 1, h[1] - 1) \o SubSeq(t, h[2] + 1, h[3] - 1)
        \o clean_brackets(SubSeq(t, h[4] + 1, Len(t)))

(* C17: when a line of the text holds two bracketed headings, the bracket  *)
(* substitution removes both and keeps what stands between the first ']'   *)
(* and the second '[', and the later statements work on that text.         *)
C17_EachHeadingRemoved ==
    pc \in {"chapters", "whitespace", "text_cleaner_returned"} =>
        LET t == clean_dashes(raw)
            h == TwoHeadings(t)
        IN  h # <<>> =>
              LET kept == WithoutHeadings(t, h)
              IN  CASE pc = "chapters"   -> text = kept
                    [] pc = "whitespace" -> text = clean_chapters(kept)
                    [] OTHER -> text = clean_whitespace(clean_chapters(kept))

C17_Witness ==
    /\ Cleaned
    /\ raw = <<"[", "]", "a", "[", "]">>
    /\ text = <<"a">>

(* C18: cleaning the returned string again gives the same string.          *)
C18_Idempotent == Cleaned => text_cleaner(text) = text

----------------------------------------------------------------------------
(* The sentence loop on any parsed document.                               *)
InitSentences ==
    /\ pc = "organize"
    /\ austen_doc \in Docs
    /\ sent_i = 0
    /\ sentences = <<>>
    /\ NewsIdle /\ CleanIdle
    /\ OtherIdle

(* line 194 *)
SentencesStart ==
    /\ pc = "organize"
    /\ sentences' = <<>>
    /\ sent_i' = 0
    /\ pc' = "sents_loop"
    /\ UNCHANGED <<austen_doc, newsVars, cleanVars>>
    /\ UNCHANGED otherVars

(* lines 195-202: one iteration over austen_doc.sents *)
SentenceStep ==
    /\ pc = "sents_loop"
    /\ sent_i < Len(austen_doc)
    /\ LET sentence == comprehension(austen_doc[sent_i + 1], 1)
       IN  sentences' = Append(sentences, sentence)
    /\ sent_i' = sent_i + 1
    /\ UNCHANGED <<pc, austen_doc, newsVars, cleanVars>>
    /\ UNCHANGED otherVars

SentencesDone ==
    /\ pc = "sents_loop"
    /\ sent_i = Len(austen_doc)
    /\ pc' = "organized"
    /\ UNCHANGED <<austen_doc, sent_i, sentences, newsVars, cleanVars>>
    /\ UNCHANGED otherVars

NextSentences == SentencesStart \/ SentenceStep \/ SentencesDone
SpecSentences == InitSentences /\ [][NextSentences]_vars

----------------------------------------------------------------------------
(* Properties of the sentence loop (SpecSentences).                        *)

(* the positions of the tokens of a span that are neither stop words nor   *)
(* punctuation                                                             *)
Content(span) == {k \in DOMAIN span : ~span[k].is_stop /\ ~span[k].is_punct}

(* C10: after the loop, sentences holds one list per sentence of the       *)
(* parsed document, in document order (possibly empty), and each list      *)
(* holds, in token order, the lower-cased lemma of exactly the tokens that *)
(* are neither stop words nor punctuation.                                 *)
C10_SentencesMirrorDoc ==
    pc = "organized" =>
        /\ Len(sentences) = Len(austen_doc)
        /\ \A s \in DOMAIN austen_doc :
              LET span == austen_doc[s]
                  kept == Content(span)
              IN  /\ Len(sentences[s]) = Cardinality(kept)
                  /\ \A k \in kept :
                        sentences[s][Cardinality({j \in kept : j <= k})]
                            = lower(span[k].lemma_)

(* a document whose first sentence is filtered out entirely and whose      *)
(* second keeps one lower-cased lemma of its two tokens                    *)
C10_Witness ==
    /\ pc = "organized"
    /\ Len(austen_doc) = 2
    /\ austen_doc[1] = <<Token(<<",">>, FALSE, TRUE)>>
    /\ austen_doc[2] = <<Token(<<"b", "e">>, TRUE, FALSE),
                         Token(<<"E", "m", "m", "a">>, FALSE, FALSE)>>
    /\ sentences = << <<>>, << <<"e", "m", "m", "a">> >> >>

----------------------------------------------------------------------------
(* The parsing cell, the sentence loop and the summary line, on any        *)
(* cleaned corpus.                                                         *)
InitParse ==
    /\ pc = "parse"
    /\ austen_clean \in Corpora
    /\ gutenberg = <<>> /\ novel_i = 0 /\ austen = <<>>
    /\ parsed = <<>> /\ sent_spans = <<>> /\ summary = <<>>
    /\ NewsIdle /\ CleanIdle /\ SentIdle
    /\ TopicIdle /\ RegressionIdle

(* lines 173-174: austen_doc = nlp(austen_clean[:999999]) *)
Parse ==
    /\ pc = "parse"
    /\ parsed' = rle_slice(austen_clean, ParseLimit)
    /\ \E doc \in nlp(parsed') :
          /\ austen_doc' = doc.sents
          /\ sent_spans' = doc.spans
    /\ pc' = "organize"
    /\ UNCHANGED <<sent_i, sentences, gutenberg, novel_i, austen, austen_clean, summary>>
    /\ UNCHANGED <<newsVars, cleanVars, topicVars, dataVars, fitVars>>

(* line 205: print(sentences[20]) raises IndexError on a short list and    *)
(* the cell stops before the summary line.                                 *)
SampleFails ==
    /\ pc = "organized"
    /\ Len(sentences) <= SampleIndex
    /\ pc' = "index_error"
    /\ UNCHANGED <<newsVars, cleanVars, sentVars, corpusVars, topicVars, dataVars, fitVars>>

(* lines 205-206: the sample sentence and the summary line *)
Summary ==
    /\ pc = "organized"
    /\ Len(sentences) > SampleIndex
    /\ summary' = <<Len(sentences), rle_len(austen_clean)>>
    /\ pc' = "summarized"
    /\ UNCHANGED <<gutenberg, novel_i, austen, austen_clean, parsed, sent_spans>>
    /\ UNCHANGED <<newsVars, cleanVars, sentVars, topicVars, dataVars, fitVars>>

NextParse ==
    \/ Parse
    \/ SentencesStart \/ SentenceStep \/ SentencesDone
    \/ SampleFails \/ Summary
SpecParse == InitParse /\ [][NextParse]_vars

----------------------------------------------------------------------------
(* Properties of the parsing cell and the summary line (SpecParse).        *)

(* len(austen_doc): the tokens of the parsed document *)
RECURSIVE TokenCount(_)
TokenCount(doc) == IF doc = <<>> THEN 0 ELSE Len(doc[1]) + TokenCount(Tail(doc))

(* C11: the summary line reports the number of sentence lists built from   *)
(* the parsed document and the number of tokens of that parsed document.   *)
C11_SummaryCountsTokens ==
    pc = "summarized" =>
        /\ summary[1] = Len(sentences)
        /\ summary[2] = TokenCount(austen_doc)

(* the positions worth probing in a text: its ends, the ends of its runs   *)
(* and the neighbourhood of the limit                                      *)
RECURSIVE RunEnds(_, _)
RunEnds(t, before) ==
    IF t = <<>> THEN {}
    ELSE {before + t[1].n, before + t[1].n + 1} \cup RunEnds(Tail(t), before + t[1].n)

Probes(t) ==
    {p \in {1, ParseLimit - 1, ParseLimit, ParseLimit + 1} \cup RunEnds(t, 0) :
        p >= 1 /\ p <= rle_len(t)}

Parsed == pc \notin {"parse"}

(* C14: the parsed document is built from the first 999999 characters of   *)
(* the cleaned corpus when it is longer, and no sentence reaches a later   *)
(* character; when it is not longer the whole cleaned corpus is parsed.    *)
C14_ParsedPrefix ==
    Parsed =>
        /\ rle_len(austen_clean) > 999999 => rle_len(parsed) = 999999
        /\ rle_len(austen_clean) <= 999999 => rle_len(parsed) = rle_len(austen_clean)
        /\ \A p \in Probes(austen_clean) :
              p <= rle_len(parsed) => rle_char(parsed, p) = rle_char(austen_clean, p)
        /\ \A k \in DOMAIN sent_spans :
              /\ sent_spans[k].first >= 1
              /\ sent_spans[k].last <= 999999
              /\ sent_spans[k].last <= rle_len(austen_clean)
        /\ sent_spans # <<>> =>
              sent_spans[Len(sent_spans)].last = rle_len(parsed)

(* a corpus of 2006272 characters whose last sentence ends at character    *)
(* 999999                                                                  *)
C14_Witness ==
    /\ pc = "summarized"
    /\ rle_len(austen_clean) = 2006272
    /\ rle_len(parsed) = 999999
    /\ sent_spans[Len(sent_spans)].last = 999999

----------------------------------------------------------------------------
(* Newsgroups.ipynb: the three method cells run top to bottom, then the    *)
(* printing loop.                                                          *)

TopicUnchanged ==
    /\ UNCHANGED <<tfidf, solution, wordlist, components, n_top_words, column>>
    /\ UNCHANGED <<cleanVars, sentVars, corpusVars, dataVars, fitVars>>
    /\ UNCHANGED <<news_train_tfidf, vocabulary, ntopics>>

(* lines 90-91 and 126-127: the tf-idf matrix, its vocabulary and the two  *)
(* globals; there are at least n_top_words words.                          *)
InitTopics ==
    /\ pc = "lsa"
    /\ \E W \in 1..MaxWords :
          /\ news_train_tfidf \in TfidfMatrices(MaxDocs, W)
          /\ vocabulary = SubSeq(Vocabulary, 1, W)
          /\ n_top_words \in 1..W
    /\ ntopics \in 1..MaxTopics
    /\ topwords_frame = NoFrame /\ topic = 0 /\ printed = <<>>
    /\ tfidf = <<>> /\ solution = <<>> /\ wordlist = <<>>
    /\ components = EmptyFrame /\ column = 0 /\ topwords = EmptySeries
    /\ CleanIdle /\ SentIdle /\ CorpusIdle /\ RegressionIdle

(* a method cell from fit_transform to the assignment of the column: the  *)
(* series top_words returns and the frame after the assignment             *)
method_cell(frame, name) ==
    { [topwords |-> ser,
       raised   |-> setitem_raises(frame, ser),
       frame    |-> IF setitem_raises(frame, ser) THEN frame
                    ELSE setitem(frame, name, ser)] :
        ser \in UNION { top_words(word_topic(news_train_tfidf, news_train, vocabulary),
                                  n_top_words) :
                        news_train \in fit_transform(news_train_tfidf, ntopics) } }

(* lines 147-154 *)
LSACell ==
    /\ pc = "lsa"
    /\ \E out \in method_cell(NewFrame, "LSA") :
          /\ topwords' = out.topwords
          /\ topwords_frame' = out.frame
          /\ pc' = IF out.raised THEN "ValueError" ELSE "lda"
    /\ UNCHANGED <<topic, printed>>
    /\ TopicUnchanged

(* lines 170-190 *)
LDACell ==
    /\ pc = "lda"
    /\ \E out \in method_cell(topwords_frame, "LDA") :
          /\ topwords' = out.topwords
          /\ topwords_frame' = out.frame
          /\ pc' = IF out.raised THEN "ValueError" ELSE "nnmf"
    /\ UNCHANGED <<topic, printed>>
    /\ TopicUnchanged

(* lines 206-222 *)
NNMFCell ==
    /\ pc = "nnmf"
    /\ \E out \in method_cell(topwords_frame, "NNMF") :
          /\ topwords' = out.topwords
          /\ topwords_frame' = out.frame
          /\ pc' = IF out.raised THEN "ValueError" ELSE "print"
    /\ UNCHANGED <<topic, printed>>
    /\ TopicUnchanged

(* lines 341-343: one iteration of the printing loop *)
PrintTopic ==
    /\ pc = "print"
    /\ topic < ntopics
    /\ printed' = Append(printed, [title |-> topic, table |-> loc(topwords_frame, topic)])
    /\ topic' = topic + 1
    /\ UNCHANGED <<pc, topwords, topwords_frame>>
    /\ TopicUnchanged

PrintDone ==
    /\ pc = "print"
    /\ topic = ntopics
    /\ pc' = "printed"
    /\ UNCHANGED <<topwords, topwords_frame, topic, printed>>
    /\ TopicUnchanged

NextTopics == LSACell \/ LDACell \/ NNMFCell \/ PrintTopic \/ PrintDone
SpecTopics == InitTopics /\ [][NextTopics]_vars

Methods == <<"LSA", "LDA", "NNMF">>

(* the positions of the frame labelled t *)
Labelled(t) == {i \in DOMAIN topwords_frame.index : topwords_frame.index[i] = t}

(* C12: once the three cells have run, topwords has the columns LSA, LDA,  *)
(* NNMF and ntopics * n_top_words rows, and the loop prints the topics in  *)
(* increasing order, each with exactly its n_top_words rows, every row     *)
(* holding one entry of each method.                                       *)
C12_ThreeColumnsPrintedByTopic ==
    pc \in {"print", "printed"} =>
        /\ topwords_frame.columns = Methods
        /\ Len(topwords_frame.index) = ntopics * n_top_words
        /\ Len(printed) = topic
        /\ pc = "printed" => Len(printed) = ntopics
        /\ \A k \in 1..Len(printed) :
              LET rows == printed[k].table.rows
                  t    == k - 1
              IN  /\ printed[k].title = t
                  /\ Len(rows) = n_top_words
                  /\ Cardinality(Labelled(t)) = n_top_words
                  /\ \A r \in 1..Len(rows) :
                        /\ rows[r].label = t
                        /\ Len(rows[r].entries) = 3
                        /\ \A c \in 1..3 :
                              rows[r].entries[c]
                                = topwords_frame.data[c][t * n_top_words + r]

C12_Witness ==
    /\ pc = "printed"
    /\ ntopics = 2 /\ n_top_words = 2
    /\ Len(printed) = 2
    /\ printed[2].table.rows[1].entries[1] # printed[2].table.rows[1].entries[2]

(* C19: every series top_words returns in the three cells has the index    *)
(* 0..ntopics-1, each label n_top_words times, so no assignment raises and *)
(* the frame keeps the rows it had: its index and the columns already      *)
(* assigned never change.                                                  *)
SeriesShareIndex ==
    /\ pc # "ValueError"
    /\ pc \in {"lda", "nnmf", "print", "printed"} =>
          /\ topwords.index = np_repeat(ntopics, n_top_words)
          /\ topwords_frame.index = topwords.index
          /\ \A c \in DOMAIN topwords_frame.data :
                /\ Len(topwords_frame.data[c]) = Len(topwords_frame.index)
                /\ \A i \in DOMAIN topwords_frame.data[c] :
                      topwords_frame.data[c][i] # NaN

RowsKept ==
    pc \in {"lda", "nnmf"} =>
        /\ topwords_frame'.index = topwords_frame.index
        /\ \A c \in DOMAIN topwords_frame.data :
              topwords_frame'.data[c] = topwords_frame.data[c]

C19_SeriesShareIndex == [](SeriesShareIndex) /\ [][RowsKept]_vars

C19_Witness ==
    /\ pc = "print"
    /\ ntopics = 2 /\ n_top_words = 2
    /\ topwords_frame.index = <<0, 0, 1, 1>>
    /\ topwords_frame.data[1] # topwords_frame.data[3]

----------------------------------------------------------------------------
(* Dimensionality_reduction.ipynb: the data cells top to bottom, then the  *)
(* fitting cells in any order.                                             *)

(* PLSRegression(n_components=3) needs at least three features *)
FeatureCounts == 3..MaxFeatures

RegressionUnchanged ==
    UNCHANGED <<newsVars, cleanVars, sentVars, corpusVars, topicVars>>

InitRegression ==
    /\ pc = "data"
    /\ RegressionIdle
    /\ NewsIdle /\ CleanIdle /\ SentIdle /\ CorpusIdle /\ TopicIdle

(* lines 73-88: n, p, X, y and the table of the correlation matrix *)
DataCell ==
    /\ pc = "data"
    /\ \E rows \in 1..MaxRows, cols \in FeatureCounts :
          \E flat \in np_random_normal(rows * cols), noise \in np_random_normal(rows * 1) :
              /\ data_n' = rows
              /\ data_p' = cols
              /\ data_X' = reshape(flat, rows, cols)
              /\ data_y' = outcome(data_X', noise, 1, 5)
              /\ corr_table' = np_insert(data_X', 0, data_y')
              /\ draws' = <<flat, noise>>
    /\ pc' = "y_new"
    /\ UNCHANGED <<y_new, y_new_one, fitVars>>
    /\ RegressionUnchanged

(* line 216 *)
YNewCell ==
    /\ pc = "y_new"
    /\ \E noise \in np_random_normal(data_n * 1) :
          /\ y_new' = outcome(data_X, noise, 1, 100)
          /\ draws' = Append(draws, noise)
    /\ pc' = "y_new_one"
    /\ UNCHANGED <<data_n, data_p, data_X, data_y, corr_table, y_new_one, fitVars>>
    /\ RegressionUnchanged

(* line 225 *)
YNewOneCell ==
    /\ pc = "y_new_one"
    /\ \E noise \in np_random_normal(data_n * 1) :
          /\ y_new_one' = outcome(data_X, noise, 500, 0)
          /\ draws' = Append(draws, noise)
    /\ pc' = "fitting"
    /\ UNCHANGED <<data_n, data_p, data_X, data_y, corr_table, y_new, fitVars>>
    /\ RegressionUnchanged

(* lines 150-166: regr and pls1 on y *)
FitCell ==
    /\ pc = "fitting" /\ runs < MaxRuns
    /\ runs' = runs + 1
    /\ regr' = fit(LinearRegression, data_X, data_y, runs')
    /\ pls1' = fit(PLSRegression(3), data_X, data_y, runs')
    /\ output' = output
          \o << print_line(runs', "R-squared regression:", score(regr', data_X, data_y)),
                print_line(runs', "R-squared PLSR:", score(pls1', data_X, data_y)) >>
    /\ UNCHANGED <<pc, pls2, pls3, dataVars>>
    /\ RegressionUnchanged

(* lines 203-207: pls2 on y *)
Pls2Cell ==
    /\ pc = "fitting" /\ runs < MaxRuns
    /\ runs' = runs + 1
    /\ pls2' = fit(PLSRegression(2), data_X, data_y, runs')
    /\ output' = Append(output,
                    print_line(runs', "R-squared PLSR:", score(pls2', data_X, data_y)))
    /\ UNCHANGED <<pc, regr, pls1, pls3, dataVars>>
    /\ RegressionUnchanged

(* a cell that refits regr and fits a new pls3 on the target; the name     *)
(* regr is not defined before the first fitting cell has run, and the cell *)
(* then stops at its first line.                                           *)
refit_cell(target, run) ==
    IF regr = Undefined
    THEN [regr |-> regr, pls3 |-> pls3, lines |-> <<>>]
    ELSE LET refitted == fit(regr, data_X, target, run)
             fitted3  == fit(PLSRegression(2), data_X, target, run)
         IN  [regr  |-> refitted,
              pls3  |-> fitted3,
              lines |-> << print_line(run, "R-squared regression:",
                                      score(refitted, data_X, target)),
                           print_line(run, "R-squared PLSR:",
                                      score(fitted3, data_X, target)) >>]

(* lines 243-250: regr and pls3 on y_new *)
FitNewCell ==
    /\ pc = "fitting" /\ runs < MaxRuns
    /\ runs' = runs + 1
    /\ LET cell == refit_cell(y_new, runs')
       IN  /\ regr' = cell.regr
           /\ pls3' = cell.pls3
           /\ output' = output \o cell.lines
    /\ UNCHANGED <<pc, pls1, pls2, dataVars>>
    /\ RegressionUnchanged

(* lines 268-275: regr and pls3 on y_new_one *)
FitNewOneCell ==
    /\ pc = "fitting" /\ runs < MaxRuns
    /\ runs' = runs + 1
    /\ LET cell == refit_cell(y_new_one, runs')
       IN  /\ regr' = cell.regr
           /\ pls3' = cell.pls3
           /\ output' = output \o cell.lines
    /\ UNCHANGED <<pc, pls1, pls2, dataVars>>
    /\ RegressionUnchanged

NextRegression ==
    \/ DataCell \/ YNewCell \/ YNewOneCell
    \/ FitCell \/ Pls2Cell \/ FitNewCell \/ FitNewOneCell
SpecRegression == InitRegression /\ [][NextRegression]_vars

HasData == pc \in {"y_new", "y_new_one", "fitting"}

(* C13: the table of the correlation matrix has n rows and p + 1 columns;  *)
(* its first column is y and columns 1..p are the columns of X in order.   *)
C13_OutcomeInsertedFirst ==
    HasData =>
        /\ Len(corr_table) = data_n
        /\ \A i \in 1..data_n :
              /\ Len(corr_table[i]) = data_p + 1
              /\ corr_table[i][1] = data_y[i]
              /\ \A j \in 1..data_p : corr_table[i][j + 1] = data_X[i][j]

C13_Witness ==
    /\ HasData
    /\ data_n = 2 /\ data_p = 3
    /\ corr_table[1][1] # data_X[1][1]
    /\ corr_table[2][4] # corr_table[2][3]

(* X with every feature from the third on replaced by v *)
OtherFeatures(v) ==
    [i \in 1..data_n |-> [j \in 1..data_p |-> IF j <= 2 THEN data_X[i][j] ELSE v]]

(* C16: X has n rows of p features and each outcome n values, and each     *)
(* outcome is the same whatever the features 2..p-1 are: row i gives       *)
(* X[i][0] + 2 * X[i][1] plus its noise and constant.                      *)
C16_OnlyTwoFeaturesEnter ==
    /\ HasData =>
          /\ Len(data_X) = data_n
          /\ \A i \in 1..data_n : Len(data_X[i]) = data_p
          /\ Len(data_y) = data_n
          /\ \A v \in {-7, 0, 7} : data_y = outcome(OtherFeatures(v), draws[2], 1, 5)
          /\ \A i \in 1..data_n :
                data_y[i] = data_X[i][1] + 2 * data_X[i][2] + draws[2][i] + 5
    /\ pc \in {"y_new_one", "fitting"} =>
          /\ Len(y_new) = data_n
          /\ \A v \in {-7, 0, 7} : y_new = outcome(OtherFeatures(v), draws[3], 1, 100)
          /\ \A i \in 1..data_n :
                y_new[i] = data_X[i][1] + 2 * data_X[i][2] + draws[3][i] + 100
    /\ pc = "fitting" =>
          /\ Len(y_new_one) = data_n
          /\ \A v \in {-7, 0, 7} : y_new_one = outcome(OtherFeatures(v), draws[4], 500, 0)
          /\ \A i \in 1..data_n :
                y_new_one[i] = data_X[i][1] + 2 * data_X[i][2] + draws[4][i] * 500

C16_Witness ==
    /\ pc = "fitting"
    /\ data_n = 2 /\ data_p = 3
    /\ data_X[1][3] # data_X[1][1] /\ data_X[1][3] # data_X[1][2]
    /\ data_X[1][3] # data_X[2][3]
    /\ y_new # data_y /\ y_new_one # y_new

(* C20: every R-squared line printed is the score of a model on the data   *)
(* this model was last fitted on, and that fit was made in the cell run    *)
(* that printed the line.                                                  *)
C20_ScoredOnOwnFit ==
    \A k \in DOMAIN output :
        /\ output[k].value.fitted_on = output[k].value.scored_on
        /\ output[k].value.fitted_in = output[k].run
        /\ output[k].value.scored_on[1] = data_X
        /\ output[k].value.scored_on[2] \in {data_y, y_new, y_new_one}

C20_Witness ==
    /\ runs = 3
    /\ Len(output) = 6
    /\ output[1].value.kind = "LinearRegression"
    /\ output[3].value.kind = "LinearRegression"
    /\ output[5].value.kind = "LinearRegression"
    /\ output[1].value.scored_on[2] = data_y
    /\ output[3].value.scored_on[2] = y_new_one
    /\ output[5].value.scored_on[2] = y_new
    /\ y_new # y_new_one /\ y_new # data_y

----------------------------------------------------------------------------
(* The word2vec notebook: the import loop and the cleaning of the corpus   *)

(* the novels of the loop, in its order *)
Novels_alphabetical == <<"emma", "persuasion", "sense">>

Novels == <<"persuasion", "emma", "sense">>

(* 'austen-' + novel + '.txt' *)
fileid(novel) == "austen-" \o novel \o ".txt"

(* the files of the corpus reader: the three novels and one more text *)
FileIds == {fileid("persuasion"), fileid("emma"), fileid("sense"), "bible-kjv.txt"}

(* raw texts a file of the model may hold *)
NovelTexts ==
    { <<>>, <<"a">>, <<"[", "b">>, <<"c", "]">>, <<"-">>, <<" ", "d", "\n">> }

ImportUnchanged ==
    UNCHANGED <<newsVars, cleanVars, sentVars, topicVars, dataVars, fitVars>>

(* line 157: austen = "" *)
InitImport ==
    /\ pc = "import"
    /\ gutenberg \in { g \in [FileIds -> NovelTexts \cup {<<"k", "j", "v">>}] :
                          /\ g["bible-kjv.txt"] = <<"k", "j", "v">>
                          /\ \A f \in FileIds \ {"bible-kjv.txt"} : g[f] \in NovelTexts }
    /\ novel_i = 0 /\ austen = <<>> /\ austen_clean = <<>>
    /\ parsed = <<>> /\ sent_spans = <<>> /\ summary = <<>>
    /\ NewsIdle /\ CleanIdle /\ SentIdle /\ TopicIdle /\ RegressionIdle

(* lines 158-160: one iteration of the import loop *)
ImportNovel ==
    /\ pc = "import"
    /\ novel_i < Len(Novels)
    /\ LET novel == Novels[novel_i + 1]
           work  == gutenberg[fileid(novel)]
       IN  austen' = austen \o work
    /\ novel_i' = novel_i + 1
    /\ UNCHANGED <<pc, gutenberg, austen_clean, parsed, sent_spans, summary>>
    /\ ImportUnchanged

(* line 163: austen_clean = text_cleaner(austen) *)
CleanCorpus ==
    /\ pc = "import"
    /\ novel_i = Len(Novels)
    /\ austen_clean' = Rle(text_cleaner(austen))
    /\ pc' = "imported"
    /\ UNCHANGED <<gutenberg, novel_i, austen, parsed, sent_spans, summary>>
    /\ ImportUnchanged

NextImport == ImportNovel \/ CleanCorpus
SpecImport == InitImport /\ [][NextImport]_vars

Persuasion == gutenberg["austen-persuasion.txt"]
Emma       == gutenberg["austen-emma.txt"]
Sense      == gutenberg["austen-sense.txt"]

(* C15: after the loop austen is the raw persuasion, emma and sense in     *)
(* that order with nothing between them, and austen_clean is text_cleaner  *)
(* of that whole text.                                                     *)
C15_CorpusConcatenatedThenCleaned ==
    /\ (pc = "import" /\ novel_i = 3) \/ pc = "imported" =>
          austen = Persuasion \o Emma \o Sense
    /\ pc = "imported" =>
          austen_clean = Rle(text_cleaner(Persuasion \o Emma \o Sense))

C15_Witness ==
    /\ pc = "imported"
    /\ Persuasion # <<>> /\ Emma # <<>> /\ Sense # <<>>
    /\ Persuasion \o Emma \o Sense # Emma \o Persuasion \o Sense
    /\ austen_clean #
          Rle(text_cleaner(Persuasion) \o text_cleaner(Emma) \o text_cleaner(Sense))

====
